---- MODULE Spec2Model ----
(***************************************************************************)
(* Model of the Soneium auto swap bot: main, processWallet and the two     *)
(* swap paths (createSwap, createSequentialSwap) of both variants of the   *)
(* program, src/bot.js ("dynamic": gas quoted and estimated on the         *)
(* network) and src/unnamed/part_000 ("static": fixed gas price and gas    *)
(* limits).                                                                *)
(*                                                                         *)
(* Amounts of money are counted in units of 10^5 wei, so that the          *)
(* program's constants stay exact and every product fits 32 bits:          *)
(* 0.008 gwei = 80,           0.01 gwei = 100, 0.0012 gwei = 12,           *)
(* 0.00002 ETH = 200000000.  Gas is counted in gas units as in the code.   *)
(* ethers BigNumber arithmetic is exact, so no width is modelled.          *)
(*                                                                         *)
(* Every await of the code is one action.  An RPC call either returns or   *)
(* throws; its outcome is drawn from the outcome sets below.  As in        *)
(* ethers v5, TransactionResponse.wait() resolves with a receipt of        *)
(* status 1 and rejects when the transaction reverted (status 0).          *)
(***************************************************************************)
EXTENDS Integers, Sequences, FiniteSets

\* ------------------------------------------------------------------ bounds
MaxSwaps == 2
MaxWallets == 2
MaxFairSwaps == 1

\* ------------------------------------------------------- program constants
DEFAULT_AMOUNT == 2
EtherUnits == 100000000
PriorityFee == 80
DefaultBaseFee == 80
StaticGasPrice == 100
GAS_PRICE_GWEI == 12
DefaultGas == 350000
WithdrawGas == 100000
BufferNum == 120
BufferDen == 100
DelayBase == 5000
LastStep == 5

\* --------------------------------------------------- outcomes of RPC calls
Fail == -1
NoBaseFee == -2
\* no call was made yet
NotAsked == -3

\* provider.getFeeData(): throws, or returns lastBaseFeePerGas (null or a fee)
FeeOutcomes == {Fail, NoBaseFee, 40}
\* provider.estimateGas(tx): throws (revert, RPC error) or returns an estimate
EstimateOutcomes == {Fail, 250001}
\* wallet.getBalance(): throws or returns the native balance
BalanceOutcomes == {Fail, 203000011, 203000012, 235000000}
\* balanceOf of the two tokens: throws or returns the token balance
TokenOutcomes == {Fail, 0, 53}
\* wallet.getTransactionCount(): throws or returns the network count
CountOutcomes == {"ok", "fail"}
\* checkBalances(wallet) whose result is only logged: returns or throws
ReadOutcomes == {"ok", "fail"}
\* wallet.sendTransaction(tx): the node accepts the transaction or the call throws
SendOutcomes == {"accepted", "rejected"}
\* tx.wait(): mined with status 1, mined with status 0 (rejects), or rejects
\* while the transaction is not known to be mined
WaitOutcomes == {"confirmed", "reverted", "error"}
\* Math.random() * 10000, floored
RandomOutcomes == {0, 9999}
InitialTxCounts == {3}
\* fs.readFileSync and JSON.parse of a file: returns or throws
FileOutcomes == {"ok", "fail"}
\* What an endpoint with steady reads never answers: its reads do not fail and
\* always return the same values (a fee, an estimate, a token balance, and a
\* native balance that is either short or ample); only submissions and
\* confirmations can fail on it.
Unsteady == {Fail, NoBaseFee, 0, 203000012}
AmountsPerSwap == {0, 1}

VARIABLES
  variant,          \* "dynamic" (src/bot.js) or "static" (src/unnamed/part_000)
  rpcHealthy,       \* the endpoint answers every call and confirms every transaction
  steady,           \* the endpoint's reads are steady (see Unsteady)
  nKeys,            \* privateKeys.length: the non-empty lines of pk.txt
  badKey,           \* position in pk.txt of the line that is no private key, 0 if none
  mainPc,           \* position of main
  loadFailed,       \* which file main could not load: "none", "config" or "keys"
  walletIndex,      \* loop index of main
  walletsRun,       \* wallets whose processWallet began its loop, in that order
  returned,         \* wallets whose processWallet returned, in that order
  results,          \* main's results, each with the wallet it was pushed for
  summary,          \* the totals and the success rate main printed
  exitCode,         \* the status the process exited with, -1 while it runs
  nonceLog,         \* what the node accepted from the wallet being run: the set of
                    \* nonces, and whether one of them was accepted twice
  abandoned,        \* nonce of a transaction of an earlier cycle whose wait() failed
                    \* while it was pending, -1 if there is none
  numberOfSwaps,    \* userConfig.numberOfSwaps
  sequentialSwap,   \* userConfig.sequentialSwap
  amountPerSwap,    \* userConfig.amountPerSwap in 10^-5 ETH, 0 when absent
  pc,               \* position of processWallet
  i,                \* loop index of processWallet
  successCount,
  failCount,
  step,             \* step of the sequence being run, 0 outside a sequence
  currentNonce,     \* local nonce of createSequentialSwap
  nonceRead,        \* what getTransactionCount returned to this sequence, -1 before
  txCount,          \* the wallet's transaction count on the network
  quote,            \* the gas quote in use
  tx,               \* the transaction request being built
  sent,             \* transactions handed to sendTransaction in this cycle
  ethAtStart,       \* native balance read at the start of the sequence; -1 before the
                    \* read and once a transaction of the sequence left the wallet's
                    \* hands (mined or lost), which changes the balance
  usdcBalance,      \* createSequentialSwap's usdcBalance
  wethBalance,      \* createSequentialSwap's wethBalance
  swapGas,          \* createSwap's gasLimit (src/bot.js) or gasEstimate (part_000)
  balanceCheck,     \* the call of checkBalance made in this cycle
  nEstimate,        \* gas estimations made in this cycle
  nCheck,           \* calls of checkBalance made in this cycle
  feeSeen,          \* what getFeeData gave the last gas quote of this cycle
  gasEstimation,    \* the last gas estimation of this cycle: outcome and result
  nQuote,           \* calls of getDynamicGasPrice made in this cycle
  usdcReadAt,       \* transactions of the cycle confirmed when usdcBalance was read
  wethReadAt,       \* transactions of the cycle confirmed when wethBalance was read
  checkedUsdc,      \* usdcBalance of the call of checkBalances that is running,
                    \* NotAsked before its read and outside the call
  delay             \* milliseconds slept at the end of the last iteration

vars == <<nonceLog, abandoned, steady, nKeys, badKey, mainPc, loadFailed, walletIndex,
          walletsRun, returned,
          results, summary, exitCode,
          variant, rpcHealthy, numberOfSwaps, sequentialSwap, amountPerSwap, pc, i,
          successCount, failCount, step, currentNonce, nonceRead, txCount, quote, tx, sent,
          ethAtStart, usdcBalance, wethBalance, swapGas, balanceCheck, nEstimate,
          nCheck, feeSeen, gasEstimation, nQuote, usdcReadAt, wethReadAt, checkedUsdc,
          delay>>

config == <<variant, rpcHealthy, steady, numberOfSwaps, sequentialSwap, amountPerSwap,
            nKeys, badKey>>
mainLocals == <<mainPc, loadFailed, walletIndex, walletsRun, results, summary, exitCode>>
frame == <<i, successCount, failCount, step, currentNonce, nonceRead, quote, tx, sent,
           ethAtStart, usdcBalance, wethBalance, swapGas, balanceCheck, nEstimate,
           nCheck, feeSeen, gasEstimation, nQuote, usdcReadAt, wethReadAt, checkedUsdc,
           delay>>
counters == <<i, successCount, failCount>>
seqLocals == <<step, currentNonce, nonceRead, ethAtStart, usdcBalance, wethBalance>>
swapLocals == <<swapGas, balanceCheck, nEstimate, nCheck>>
gasLocals == <<feeSeen, gasEstimation, nQuote>>
walletNonces == <<nonceLog, abandoned>>
readLocals == <<usdcReadAt, wethReadAt, checkedUsdc>>

\* The outcomes a healthy endpoint can produce are the successful ones.
Outcomes(all, failing) == IF rpcHealthy THEN all \ failing ELSE all
\* The same for a read whose value is not used: steady reads do not fail.
Calls(all, failing) == IF rpcHealthy \/ steady THEN all \ failing ELSE all
\* The same for a read that returns a number.
Values(all, failing) ==
  IF rpcHealthy THEN all \ failing ELSE IF steady THEN all \ Unsteady ELSE all

\* ------------------------------------------------------------ pure helpers
NoQuote == [maxFeePerGas |-> 0, maxPriorityFeePerGas |-> 0]
NoTx == [kind |-> "none", to |-> "none", recipient |-> 0, value |-> 0, amount |-> 0,
         nonce |-> -1,
         estimate |-> NotAsked, gasLimit |-> 0, maxFeePerGas |-> 0,
         maxPriorityFeePerGas |-> 0, status |-> "none"]
NoEstimation == [asked |-> FALSE, outcome |-> NotAsked, result |-> 0]
NoNonces == [nonces |-> {}, reused |-> FALSE]
NoRate == [divisor |-> 0, nan |-> FALSE, hundredths |-> 0]
NoSummary == [printed |-> FALSE, totalSuccess |-> 0, totalFail |-> 0, rate |-> NoRate]
NoCheck == [done |-> FALSE, balance |-> 0, amount |-> 0, gasEstimate |-> 0,
            gasPrice |-> 0, result |-> FALSE]

\* ethers.utils.parseEther of the configured amount, or of DEFAULT_AMOUNT
parseEther(eth) == eth * EtherUnits
amountInWei == parseEther(IF amountPerSwap # 0 THEN amountPerSwap ELSE DEFAULT_AMOUNT)

\* mutant of getDynamicGasPrice: the catch branch keeps the dynamic priority fee
getDynamicGasPriceMixedFallback(fee) ==
  IF fee = Fail
    THEN [maxFeePerGas |-> StaticGasPrice, maxPriorityFeePerGas |-> PriorityFee]
    ELSE LET baseFee == IF fee = NoBaseFee THEN DefaultBaseFee ELSE fee
         IN  [maxFeePerGas |-> baseFee + PriorityFee, maxPriorityFeePerGas |-> PriorityFee]

\* getDynamicGasPrice: never throws; the catch branch returns the static price
getDynamicGasPrice(fee) ==
  IF fee = Fail
    THEN [maxFeePerGas |-> StaticGasPrice, maxPriorityFeePerGas |-> StaticGasPrice]
    ELSE LET baseFee == IF fee = NoBaseFee THEN DefaultBaseFee ELSE fee
         IN  [maxFeePerGas |-> baseFee + PriorityFee, maxPriorityFeePerGas |-> PriorityFee]

\* the static variant's quote: parseUnits(config.GAS_PRICE_GWEI, 'gwei') for both fees
staticGasPrice == [maxFeePerGas |-> GAS_PRICE_GWEI, maxPriorityFeePerGas |-> GAS_PRICE_GWEI]

\* mutant of estimateGasWithFallback: the catch branch returns no gas limit
estimateGasFallbackMissing(estimate) ==
  IF estimate = Fail THEN 0 ELSE (estimate * BufferNum) \div BufferDen

\* mutant of estimateGasWithFallback: the buffered estimate is rounded up
estimateGasRoundedUp(estimate) ==
  IF estimate = Fail THEN DefaultGas
  ELSE (estimate * BufferNum + BufferDen - 1) \div BufferDen

\* estimateGasWithFallback: estimate * 120 / 100 truncated, or 350000 on failure
estimateGasWithFallback(estimate) ==
  IF estimate = Fail THEN DefaultGas ELSE (estimate * BufferNum) \div BufferDen

\* mutant of checkBalance: a strict comparison
checkBalanceStrict(balance, amount, gasEstimate, gasPrice) ==
  balance > amount + gasEstimate * gasPrice

\* checkBalance: balance.gte(amount.add(gasEstimate.mul(gasPrice)))
checkBalance(balance, amount, gasEstimate, gasPrice) ==
  balance >= amount + gasEstimate * gasPrice

\* Math.floor(Math.random() * 10000) + 5000
randomDelay(r) == r + DelayBase

\* ---------------------------------------------------------- the five steps
\* mutant of stepKind: both swaps before both approvals
stepKindSwapsFirst(k) == <<"swap", "swap", "approve", "approve", "withdraw">>[k]

\* the call each step of createSequentialSwap encodes
stepKind(k) == <<"swap", "approve", "swap", "approve", "withdraw">>[k]
\* mutant of stepTo: the two approvals go to each other's token contract
stepToApprovalsSwapped(k) ==
  <<"QUICKSWAP_ROUTER", "TOKEN_IN", "QUICKSWAP_ROUTER", "TOKEN_OUT", "TOKEN_IN">>[k]

\* the contract each step is sent to
stepTo(k) ==
  <<"QUICKSWAP_ROUTER", "TOKEN_OUT", "QUICKSWAP_ROUTER", "TOKEN_IN", "TOKEN_IN">>[k]
\* the recipient each step's call data encodes: wallet.address in the params of
\* both swaps, written as the position of the wallet's key; 0 for no recipient
stepRecipient(k, w) == IF k \in {1, 3} THEN w ELSE 0
\* the native value each step carries
stepValue(k, amount) == IF k = 1 THEN amount ELSE 0
\* mutant of stepAmount: the second swap and the withdrawal encode the
\* configured amount, known before the sequence starts
stepAmountPrecomputed(k, amount, usdc, weth) ==
  IF k \in {1, 3, 5} THEN amount ELSE 0

\* the amount each step's call data encodes (0 stands for MaxUint256 of an approve)
stepAmount(k, amount, usdc, weth) ==
  IF k = 1 THEN amount ELSE IF k = 3 THEN usdc ELSE IF k = 5 THEN weth ELSE 0
\* mutant of stepFees: the fee cap grows with every step
stepFeesEscalating(k, q) == [q EXCEPT !.maxFeePerGas = q.maxFeePerGas + k]

\* ...baseTxParams: every step's request spreads the one quote of the sequence
stepFees(k, q) == q
\* mutant of staticGasLimit: the withdrawal gets the swaps' gas limit
staticGasLimitUniform(k) == DefaultGas

\* the static variant's fixed gas limits
staticGasLimit(k) == IF k = LastStep THEN WithdrawGas ELSE DefaultGas

\* mutant of nextNonce: the local nonce is not advanced
nextNonceStuck(n) == n

\* currentNonce++
nextNonce(n) == n + 1
\* mutant of afterSend: the confirmation is not awaited
afterSendNoWait == "seq_after"

\* where the sequence goes once sendTransaction returned: await tx.wait()
afterSend == "seq_wait"
\* mutant of waitResolves: a reverted receipt is returned instead of thrown
waitResolvesOnRevert(outcome) == outcome # "error"

\* tx.wait() resolves only for a receipt of status 1
waitResolves(outcome) == outcome = "confirmed"
\* a transaction that wait() saw mined has used its nonce on the network
mined(outcome) == outcome \in {"confirmed", "reverted"}
\* mutant of insufficient: the result of the balance check is ignored
insufficientIgnored(hasEnoughBalance) == FALSE

\* if (!hasEnoughBalance) throw new Error('Insufficient balance for transaction')
insufficient(hasEnoughBalance) == ~hasEnoughBalance
\* mutant of failAfterCatch: the catch block does not count the failure
failAfterCatchForgotten(f) == f

\* the catch block: failCount++
failAfterCatch(f) == f + 1
\* mutant of indexAfterCatch: a failed cycle also uses up the next index
indexAfterCatchTwice(n) == n + 2

\* mutant of indexAfterCatch: the catch block leaves the loop
indexAfterCatchBreak(n) == numberOfSwaps

\* the for loop's i++ after the catch block
indexAfterCatch(n) == n + 1
\* receipt.status of the receipt wait() resolved with
receiptStatus(outcome) == IF outcome = "confirmed" THEN 1 ELSE 0

setStatus(txs, status) == [txs EXCEPT ![Len(txs)].status = status]
\* how many transactions of the cycle wait() has resolved for
confirmedCount(txs) == Cardinality({k \in 1..Len(txs) : txs[k].status = "confirmed"})

\* ------------------------------------------------------------------- Init
Init ==
  /\ variant \in {"dynamic", "static"}
  /\ rpcHealthy \in BOOLEAN
  /\ steady \in BOOLEAN
  /\ ~(rpcHealthy /\ steady)
  \* several wallets are run against an endpoint with steady reads, one wallet
  \* against an endpoint whose every call may fail or vary
  /\ nKeys \in (IF steady THEN 0..MaxWallets ELSE {1})
  /\ badKey \in 0..nKeys
  /\ mainPc = "load_config"
  /\ loadFailed = "none"
  /\ walletIndex = 0
  /\ walletsRun = <<>>
  /\ returned = <<>>
  /\ results = <<>>
  /\ summary = NoSummary
  /\ exitCode = -1
  /\ nonceLog = NoNonces
  /\ abandoned = -1
  /\ numberOfSwaps \in 0..MaxSwaps
  /\ sequentialSwap \in BOOLEAN
  /\ amountPerSwap \in AmountsPerSwap
  /\ pc = "idle"
  /\ i = 0
  /\ successCount = 0
  /\ failCount = 0
  /\ step = 0
  /\ currentNonce = 0
  /\ nonceRead = -1
  /\ txCount \in InitialTxCounts
  /\ quote = NoQuote
  /\ tx = NoTx
  /\ sent = <<>>
  /\ ethAtStart = -1
  /\ usdcBalance = 0
  /\ wethBalance = 0
  /\ swapGas = 0
  /\ balanceCheck = NoCheck
  /\ nEstimate = 0
  /\ nCheck = 0
  /\ feeSeen = NotAsked
  /\ gasEstimation = NoEstimation
  /\ nQuote = 0
  /\ usdcReadAt = -1
  /\ wethReadAt = -1
  /\ checkedUsdc = NotAsked
  /\ delay = 0

\* ---------------------------------------------------------- processWallet
\* for (let i = 0; i < userConfig.numberOfSwaps; i++) { try { ... : a cycle starts
StartCycle ==
  /\ pc = "loop"
  /\ i < numberOfSwaps
  /\ pc' = IF sequentialSwap THEN "seq_begin"
           ELSE IF variant = "dynamic" THEN "swap_quote" ELSE "swap_estimate"
  /\ step' = 0
  /\ currentNonce' = 0
  /\ nonceRead' = -1
  /\ quote' = NoQuote
  /\ tx' = NoTx
  /\ sent' = <<>>
  /\ ethAtStart' = -1
  /\ usdcBalance' = 0
  /\ wethBalance' = 0
  /\ swapGas' = 0
  /\ balanceCheck' = NoCheck
  /\ nEstimate' = 0
  /\ nCheck' = 0
  /\ feeSeen' = NotAsked
  /\ gasEstimation' = NoEstimation
  /\ nQuote' = 0
  /\ usdcReadAt' = -1
  /\ wethReadAt' = -1
  /\ checkedUsdc' = NotAsked
  /\ delay' = 0
  /\ UNCHANGED <<config, counters, txCount, mainLocals, returned, walletNonces>>

\* the loop ends: return { successCount, failCount }
Return ==
  /\ pc = "loop"
  /\ ~(i < numberOfSwaps)
  /\ pc' = "return"
  /\ returned' = Append(returned, walletIndex + 1)
  /\ UNCHANGED <<config, counters, seqLocals, swapLocals, txCount, quote, tx, sent,
                 delay, gasLocals, readLocals, mainLocals, walletNonces>>

\* the randomized delay that ends the try block, then i++
Delay ==
  /\ pc = "delay"
  /\ \E r \in RandomOutcomes :
       delay' = randomDelay(r)
  /\ i' = i + 1
  /\ pc' = "loop"
  /\ UNCHANGED <<config, successCount, failCount, seqLocals, swapLocals, txCount,
                 quote, tx, sent, gasLocals, readLocals, mainLocals, returned,
                 walletNonces>>

\* catch (error) { failCount++ }, then i++
Catch ==
  /\ pc = "catch"
  /\ failCount' = failAfterCatch(failCount)
  /\ i' = indexAfterCatch(i)
  /\ pc' = "loop"
  /\ UNCHANGED <<config, successCount, seqLocals, swapLocals, txCount, quote, tx,
                 sent, delay, gasLocals, readLocals, mainLocals, returned, walletNonces>>

\* the positions of a cycle at which it has not read the wallet's transaction
\* count yet (checkBalances is also called later in a sequence, at step >= 1)
beforeNonce ==
  \/ pc \in {"loop", "seq_begin", "seq_quote", "seq_nonce",
             "swap_quote", "swap_estimate", "swap_check", "swap_nonce"}
  \/ (pc \in {"balances_usdc", "balances_weth"} /\ step = 0)

\* The network, while the program is suspended between two cycles or at an await
\* before the cycle's nonce is read: a transaction left pending by a cycle whose
\* wait() failed is mined, unless its nonce was used up meanwhile.
MinePending ==
  /\ beforeNonce
  /\ abandoned = txCount
  /\ txCount' = txCount + 1
  /\ abandoned' = -1
  /\ UNCHANGED <<config, pc, frame, mainLocals, returned, nonceLog>>

\* ------------------------------------------------- createSwap (single swap)
\* src/bot.js: const { maxFeePerGas, maxPriorityFeePerGas } = await getDynamicGasPrice(...)
SwapQuote ==
  /\ pc = "swap_quote"
  /\ \E fee \in Values(FeeOutcomes, {Fail}) :
       /\ quote' = getDynamicGasPrice(fee)
       /\ feeSeen' = fee
  /\ nQuote' = nQuote + 1
  /\ pc' = "swap_estimate"
  /\ UNCHANGED <<config, counters, seqLocals, swapLocals, txCount, tx, sent, delay,
                 gasEstimation, readLocals, mainLocals, returned, walletNonces>>

\* src/bot.js: gasLimit = await estimateGasWithFallback(wallet, txRequest)
\* part_000:   gasEstimate = await wallet.provider.estimateGas(txRequest), which may
\*             throw, then gasPrice = parseUnits(config.GAS_PRICE_GWEI, 'gwei')
SwapEstimate ==
  /\ pc = "swap_estimate"
  /\ nEstimate' = nEstimate + 1
  /\ \E e \in Values(EstimateOutcomes, {Fail}) :
       IF variant = "dynamic"
         THEN /\ swapGas' = estimateGasWithFallback(e)
              /\ gasEstimation' = [asked |-> TRUE, outcome |-> e,
                                    result |-> estimateGasWithFallback(e)]
              /\ quote' = quote
              /\ pc' = "swap_check"
         ELSE IF e = Fail
           THEN /\ pc' = "catch"
                /\ gasEstimation' = [asked |-> TRUE, outcome |-> e, result |-> 0]
                /\ UNCHANGED <<swapGas, quote>>
           ELSE /\ swapGas' = e
                /\ gasEstimation' = [asked |-> TRUE, outcome |-> e, result |-> e]
                /\ quote' = staticGasPrice
                /\ pc' = "swap_check"
  /\ UNCHANGED <<config, counters, seqLocals, balanceCheck, nCheck, txCount, tx, sent,
                 delay, feeSeen, nQuote, readLocals, mainLocals, returned, walletNonces>>

\* hasEnoughBalance = await checkBalance(...); throw if not; return the request
SwapCheck ==
  /\ pc = "swap_check"
  /\ nCheck' = nCheck + 1
  /\ \E b \in Values(BalanceOutcomes, {Fail}) :
       IF b = Fail
         THEN /\ pc' = "catch"
              /\ UNCHANGED <<balanceCheck, tx>>
         ELSE LET hasEnoughBalance ==
                    checkBalance(b, amountInWei, swapGas, quote.maxFeePerGas)
              IN  /\ balanceCheck' = [done |-> TRUE, balance |-> b, amount |-> amountInWei,
                                      gasEstimate |-> swapGas,
                                      gasPrice |-> quote.maxFeePerGas,
                                      result |-> hasEnoughBalance]
                  /\ IF insufficient(hasEnoughBalance)
                       THEN /\ pc' = "catch"
                            /\ tx' = tx
                       ELSE /\ pc' = "swap_nonce"
                            /\ tx' = [kind |-> "swap", to |-> "QUICKSWAP_ROUTER",
                                      recipient |-> walletIndex + 1,
                                      value |-> amountInWei, amount |-> amountInWei,
                                      nonce |-> -1,
                                      estimate |-> gasEstimation.outcome,
                                      gasLimit |-> IF variant = "dynamic" THEN swapGas
                                                   ELSE DefaultGas,
                                      maxFeePerGas |-> quote.maxFeePerGas,
                                      maxPriorityFeePerGas |-> quote.maxPriorityFeePerGas,
                                      status |-> "built"]
  /\ UNCHANGED <<config, counters, seqLocals, swapGas, nEstimate, txCount, quote,
                 sent, delay, gasLocals, readLocals, mainLocals, returned, walletNonces>>

\* tx.nonce = await wallet.getTransactionCount()
SwapNonce ==
  /\ pc = "swap_nonce"
  /\ \E o \in Calls(CountOutcomes, {"fail"}) :
       IF o = "ok"
         THEN /\ tx' = [tx EXCEPT !.nonce = txCount]
              /\ pc' = "swap_send"
         ELSE /\ tx' = tx
              /\ pc' = "catch"
  /\ UNCHANGED <<config, counters, seqLocals, swapLocals, txCount, quote, sent, delay,
                 gasLocals, readLocals, mainLocals, returned, walletNonces>>

\* signedTx = await wallet.sendTransaction(tx)
SwapSend ==
  /\ pc = "swap_send"
  /\ \E o \in Outcomes(SendOutcomes, {"rejected"}) :
       IF o = "accepted"
         THEN /\ sent' = Append(sent, [tx EXCEPT !.status = "submitted"])
              /\ nonceLog' = [nonces |-> nonceLog.nonces \cup {tx.nonce},
                               reused |-> nonceLog.reused \/ tx.nonce \in nonceLog.nonces]
              /\ pc' = "swap_wait"
         ELSE /\ sent' = Append(sent, [tx EXCEPT !.status = "rejected"])
              /\ nonceLog' = nonceLog
              /\ pc' = "catch"
  /\ UNCHANGED <<config, counters, seqLocals, swapLocals, txCount, quote, tx, delay,
                 gasLocals, readLocals, mainLocals, returned, abandoned>>

\* receipt = await signedTx.wait(); if (receipt.status === 1) successCount++
\* else failCount++
SwapWait ==
  /\ pc = "swap_wait"
  /\ \E o \in Outcomes(WaitOutcomes, {"reverted", "error"}) :
       /\ sent' = setStatus(sent, IF o = "error" THEN "unknown" ELSE o)
       /\ txCount' = IF mined(o) THEN txCount + 1 ELSE txCount
       /\ abandoned' = IF mined(o) THEN -1 ELSE tx.nonce
       /\ IF waitResolves(o)
            THEN /\ pc' = "delay"
                 /\ IF receiptStatus(o) = 1
                      THEN /\ successCount' = successCount + 1
                           /\ failCount' = failCount
                      ELSE /\ failCount' = failCount + 1
                           /\ successCount' = successCount
            ELSE /\ pc' = "catch"
                 /\ UNCHANGED <<successCount, failCount>>
  /\ UNCHANGED <<config, i, seqLocals, swapLocals, quote, tx, delay, gasLocals,
                 readLocals, mainLocals, returned, nonceLog>>

\* ------------------------------------------------------ createSequentialSwap
\* where createSequentialSwap goes on when the balances read after step k
\* (k = 0: the initial balances) are there
afterBalances(k) ==
  IF k = 0 THEN (IF variant = "dynamic" THEN "seq_quote" ELSE "seq_nonce")
  ELSE IF k < LastStep THEN "seq_prepare" ELSE "seq_done"
\* the step that follows step k (k = 0: the sequence has not read its nonce yet)
followingStep(k) == IF k >= 1 /\ k < LastStep THEN k + 1 ELSE k
\* what createSequentialSwap awaits when the timer after step k has fired:
\* checkBalances (steps 1, 2, 5), getWETHBalance (step 3), nothing (step 4)
afterTimer(k) ==
  IF k \in {1, 2, 5} THEN "balances_eth"
  ELSE IF k = 3 THEN "weth_balance" ELSE afterBalances(k)

\* await checkBalances(wallet), the initial balances (logged), its first await:
\* const ethBalance = await wallet.getBalance()
SeqBegin ==
  /\ pc = "seq_begin"
  /\ \E b \in Values(BalanceOutcomes, {Fail}) :
       IF b = Fail
         THEN /\ pc' = "catch"
              /\ ethAtStart' = ethAtStart
         ELSE /\ pc' = "balances_usdc"
              /\ ethAtStart' = b
  /\ UNCHANGED <<config, counters, step, currentNonce, nonceRead, usdcBalance,
                 wethBalance, swapLocals, txCount, quote, tx, sent, delay, gasLocals,
                 readLocals, mainLocals, returned, walletNonces>>

\* checkBalances after a step: const ethBalance = await wallet.getBalance(), logged
BalancesEth ==
  /\ pc = "balances_eth"
  /\ \E o \in Calls(ReadOutcomes, {"fail"}) :
       pc' = IF o = "ok" THEN "balances_usdc" ELSE "catch"
  /\ UNCHANGED <<config, counters, seqLocals, swapLocals, txCount, quote, tx, sent,
                 delay, gasLocals, readLocals, mainLocals, returned, walletNonces>>

\* checkBalances: const usdcBalance = await usdcContract.balanceOf(wallet.address)
BalancesUsdc ==
  /\ pc = "balances_usdc"
  /\ \E t \in Values(TokenOutcomes, {Fail}) :
       IF t = Fail
         THEN /\ pc' = "catch"
              /\ checkedUsdc' = checkedUsdc
         ELSE /\ pc' = "balances_weth"
              /\ checkedUsdc' = t
  /\ UNCHANGED <<config, counters, seqLocals, swapLocals, txCount, quote, tx, sent,
                 delay, gasLocals, usdcReadAt, wethReadAt, mainLocals, returned,
                 walletNonces>>

\* checkBalances: const wethBalance = await getWETHBalance(wallet); the three
\* balances are logged and returned, and after step 2 the caller keeps
\* usdcBalance: const { usdcBalance } = await checkBalances(wallet)
BalancesWeth ==
  /\ pc = "balances_weth"
  /\ \E o \in Calls(ReadOutcomes, {"fail"}) :
       IF o = "fail"
         THEN /\ pc' = "catch"
              /\ UNCHANGED <<step, usdcBalance, usdcReadAt>>
         ELSE /\ usdcBalance' = IF step = 2 THEN checkedUsdc ELSE usdcBalance
              /\ usdcReadAt' = IF step = 2 THEN confirmedCount(sent) ELSE usdcReadAt
              /\ step' = followingStep(step)
              /\ pc' = afterBalances(step)
  /\ checkedUsdc' = NotAsked
  /\ UNCHANGED <<config, counters, currentNonce, nonceRead, ethAtStart, wethBalance,
                 swapLocals, txCount, quote, tx, sent, delay, gasLocals, wethReadAt,
                 mainLocals, returned, walletNonces>>

\* src/bot.js only: one gas quote for the whole sequence (baseTxParams)
SeqQuote ==
  /\ pc = "seq_quote"
  /\ \E fee \in Values(FeeOutcomes, {Fail}) :
       /\ quote' = getDynamicGasPrice(fee)
       /\ feeSeen' = fee
  /\ nQuote' = nQuote + 1
  /\ pc' = "seq_nonce"
  /\ UNCHANGED <<config, counters, seqLocals, swapLocals, txCount, tx, sent, delay,
                 gasEstimation, readLocals, mainLocals, returned, walletNonces>>

\* let currentNonce = await wallet.getTransactionCount()
\* (part_000: then gasPrice = parseUnits(config.GAS_PRICE_GWEI, 'gwei'))
SeqNonce ==
  /\ pc = "seq_nonce"
  /\ \E o \in Calls(CountOutcomes, {"fail"}) :
       IF o = "ok"
         THEN /\ currentNonce' = txCount
              /\ nonceRead' = txCount
              /\ step' = 1
              /\ quote' = IF variant = "dynamic" THEN quote ELSE staticGasPrice
              /\ pc' = "seq_prepare"
         ELSE /\ pc' = "catch"
              /\ UNCHANGED <<currentNonce, nonceRead, step, quote>>
  /\ UNCHANGED <<config, counters, ethAtStart, usdcBalance, wethBalance, swapLocals,
                 txCount, tx, sent, delay, gasLocals, readLocals, mainLocals, returned,
                 walletNonces>>

\* the request of step `step` is built with nonce: currentNonce++; src/bot.js then
\* sets its gasLimit = await estimateGasWithFallback(wallet, request)
SeqPrepare ==
  /\ pc = "seq_prepare"
  /\ \E e \in (IF variant = "dynamic" THEN Values(EstimateOutcomes, {Fail}) ELSE {Fail}) :
       /\ gasEstimation' = IF variant = "dynamic"
                              THEN [asked |-> TRUE, outcome |-> e,
                                    result |-> estimateGasWithFallback(e)]
                              ELSE gasEstimation
       /\ tx' = [kind |-> stepKind(step), to |-> stepTo(step),
                 recipient |-> stepRecipient(step, walletIndex + 1),
                 value |-> stepValue(step, amountInWei),
                 amount |-> stepAmount(step, amountInWei, usdcBalance, wethBalance),
                 nonce |-> currentNonce,
                 estimate |-> IF variant = "dynamic" THEN e ELSE NotAsked,
                 gasLimit |-> IF variant = "dynamic" THEN estimateGasWithFallback(e)
                              ELSE staticGasLimit(step),
                 maxFeePerGas |-> stepFees(step, quote).maxFeePerGas,
                 maxPriorityFeePerGas |-> stepFees(step, quote).maxPriorityFeePerGas,
                 status |-> "built"]
  /\ nEstimate' = IF variant = "dynamic" THEN nEstimate + 1 ELSE nEstimate
  /\ currentNonce' = nextNonce(currentNonce)
  /\ pc' = "seq_send"
  /\ UNCHANGED <<config, counters, step, nonceRead, ethAtStart, usdcBalance, wethBalance,
                 swapGas, balanceCheck, nCheck, txCount, quote, sent, delay, feeSeen,
                 nQuote, readLocals, mainLocals, returned, walletNonces>>

\* await wallet.sendTransaction(request)
SeqSend ==
  /\ pc = "seq_send"
  /\ \E o \in Outcomes(SendOutcomes, {"rejected"}) :
       IF o = "accepted"
         THEN /\ sent' = Append(sent, [tx EXCEPT !.status = "submitted"])
              /\ nonceLog' = [nonces |-> nonceLog.nonces \cup {tx.nonce},
                               reused |-> nonceLog.reused \/ tx.nonce \in nonceLog.nonces]
              /\ pc' = afterSend
         ELSE /\ sent' = Append(sent, [tx EXCEPT !.status = "rejected"])
              /\ nonceLog' = nonceLog
              /\ pc' = "catch"
  /\ UNCHANGED <<config, counters, seqLocals, swapLocals, txCount, quote, tx, delay,
                 gasLocals, readLocals, mainLocals, returned, abandoned>>

\* await response.wait()
SeqWait ==
  /\ pc = "seq_wait"
  /\ \E o \in Outcomes(WaitOutcomes, {"reverted", "error"}) :
       /\ sent' = setStatus(sent, IF o = "error" THEN "unknown" ELSE o)
       /\ txCount' = IF mined(o) THEN txCount + 1 ELSE txCount
       /\ abandoned' = IF mined(o) THEN -1 ELSE tx.nonce
       /\ pc' = IF waitResolves(o) THEN "seq_after" ELSE "catch"
  /\ ethAtStart' = -1
  /\ UNCHANGED <<config, counters, step, currentNonce, nonceRead, usdcBalance, wethBalance,
                 swapLocals, quote, tx, delay, gasLocals, readLocals, mainLocals, returned,
                 nonceLog>>

\* after a step: await new Promise(resolve => setTimeout(resolve, 2000)); what is
\* awaited next depends on the step, and after step 4 the next request is built
SeqAfter ==
  /\ pc = "seq_after"
  /\ pc' = afterTimer(step)
  /\ step' = IF step = 4 THEN followingStep(step) ELSE step
  /\ UNCHANGED <<config, counters, currentNonce, nonceRead, ethAtStart, usdcBalance,
                 wethBalance, swapLocals, txCount, quote, tx, sent, delay, gasLocals,
                 readLocals, mainLocals, returned, walletNonces>>

\* after step 3: const wethBalance = await getWETHBalance(wallet)
SeqWeth ==
  /\ pc = "weth_balance"
  /\ \E t \in Values(TokenOutcomes, {Fail}) :
       IF t = Fail
         THEN /\ pc' = "catch"
              /\ UNCHANGED <<step, wethBalance, wethReadAt>>
         ELSE /\ wethBalance' = t
              /\ wethReadAt' = confirmedCount(sent)
              /\ step' = followingStep(step)
              /\ pc' = afterBalances(step)
  /\ UNCHANGED <<config, counters, currentNonce, nonceRead, ethAtStart, usdcBalance,
                 swapLocals, txCount, quote, tx, sent, delay, gasLocals, usdcReadAt,
                 checkedUsdc, mainLocals, returned, walletNonces>>

\* createSequentialSwap returned: successCount++
SeqDone ==
  /\ pc = "seq_done"
  /\ successCount' = successCount + 1
  /\ pc' = "delay"
  /\ UNCHANGED <<config, i, failCount, seqLocals, swapLocals, txCount, quote, tx, sent,
                 delay, gasLocals, readLocals, mainLocals, returned, walletNonces>>

\* ------------------------------------------------------------------ main
\* mutant of afterLoadFailure: the error is swallowed and main goes on
afterLoadFailureIgnored(next) == next

\* a throw inside main's try block lands in its catch block
afterLoadFailure(next) == "fatal"
\* mutant of callReturned: the result is taken without awaiting the call
callReturnedEarly(p) == p # "idle"

\* const result = await processWallet(...): main resumes when the call returned
callReturned(p) == p = "return"
\* results.reduce((sum, result) => sum + result[field], sum0)
RECURSIVE reduceSum(_, _, _)
reduceSum(rs, field, sum) ==
  IF rs = <<>> THEN sum ELSE reduceSum(Tail(rs), field, sum + Head(rs)[field])
\* const totalSuccess = results.reduce((sum, result) => sum + result.successCount, 0)
totalSuccessOf(rs) == reduceSum(rs, "successCount", 0)
\* mutant of totalFailOf: the reduction of totalSuccess copied unchanged
totalFailCopied(rs) == reduceSum(rs, "successCount", 0)

\* const totalFail = results.reduce((sum, result) => sum + result.failCount, 0)
totalFailOf(rs) == reduceSum(rs, "failCount", 0)
\* ------------------------------------------- double-precision arithmetic
\* JavaScript numbers are IEEE 754 doubles.  A natural number below 2^75 is
\* written as five limbs of 15 bits, least significant first; a double is
\* [n |-> limbs, e |-> exponent], the value n * 2^e, where n has at most 53
\* significant bits.
LimbBits == 15
LimbBase == 32768
Limbs == 5
MantissaBits == 53
QuotientBits == 60
\* An operand is computed once and its value handed on: the operators below
\* take it from a one-element set, CHOOSE result \in {f(v) : v \in {operand}}.
\* limbs with the carries propagated
carried(raw) ==
  LET c2 == raw[2] + raw[1] \div LimbBase
      c3 == raw[3] + c2 \div LimbBase
      c4 == raw[4] + c3 \div LimbBase
      c5 == raw[5] + c4 \div LimbBase
  IN  <<raw[1] % LimbBase, c2 % LimbBase, c3 % LimbBase, c4 % LimbBase, c5>>
carry(raw) == CHOOSE result \in {carried(v) : v \in {raw}} : TRUE
\* the exact product of a number and a small factor
times(n, factor) == carry([j \in 1..Limbs |-> factor * n[j]])
bitAt(n, k) == (n[k \div LimbBits + 1] \div 2^(k % LimbBits)) % 2
anyBelow(n, k) == \E j \in 0..(k - 1) : bitAt(n, j) = 1
topLimb(n) == CHOOSE k \in 1..Limbs : n[k] # 0 /\ \A j \in (k + 1)..Limbs : n[j] = 0
bitLength(n) ==
  CHOOSE result \in
    {LimbBits * (top - 1) + Cardinality({j \in 0..(LimbBits - 1) : 2^j <= n[top]}) :
       top \in {topLimb(n)}} : TRUE
powerOfTwo(k) ==
  [j \in 1..Limbs |-> IF j = k \div LimbBits + 1 THEN 2^(k % LimbBits) ELSE 0]
clearBelow(n, k) ==
  [j \in 1..Limbs |->
     IF j < k \div LimbBits + 1 THEN 0
     ELSE IF j = k \div LimbBits + 1 THEN n[j] - (n[j] % 2^(k % LimbBits))
     ELSE n[j]]
clearBit(n, k) ==
  [n EXCEPT ![k \div LimbBits + 1] = @ - (bitAt(n, k) * 2^(k % LimbBits))]
\* the result of every double operation: the exact value (n, and something
\* below its last bit when sticky) rounded to 53 significant bits, to the
\* nearest, ties to even
roundedAt(n, drop, sticky) ==
  LET tie == bitAt(n, drop - 1) = 1 /\ ~sticky /\ ~anyBelow(n, drop - 1)
      half == powerOfTwo(drop - 1)
      halfUp == clearBelow(carry([j \in 1..Limbs |-> n[j] + half[j]]), drop)
  IN  IF drop <= 0 THEN n ELSE IF tie THEN clearBit(halfUp, drop) ELSE halfUp
rounded(n, sticky) ==
  CHOOSE result \in {roundedAt(n, drop, sticky) : drop \in {bitLength(n) - MantissaBits}} :
    TRUE
roundToDouble(n, sticky) == CHOOSE result \in {rounded(v, sticky) : v \in {n}} : TRUE
\* s / t for two counts, 0 < s <= t < 2^15: the first 60 bits of the quotient
\* from its leading 1, by long division, then rounded
divide(s, t) ==
  IF s = t THEN [n |-> <<0, 0, 0, 0, 1>>, e |-> 0 - QuotientBits]
  ELSE LET z == Cardinality({k \in 1..LimbBits : s * 2^k < t})
           x1 == s * 2^z * LimbBase
           x2 == (x1 % t) * LimbBase
           x3 == (x2 % t) * LimbBase
           x4 == (x3 % t) * LimbBase
       IN  [n |-> roundToDouble(<<x4 \div t, x3 \div t, x2 \div t, x1 \div t, 0>>,
                                x4 % t # 0),
            e |-> 0 - (QuotientBits + z)]
\* x * factor for a double x below 1 and a small factor
multiply(x, factor) ==
  CHOOSE result \in {[n |-> roundToDouble(times(v.n, factor), FALSE), e |-> v.e] :
                       v \in {x}} : TRUE
\* x.toFixed(2) in hundredths: the integer nearest to the exact value of
\* x * 100, the larger one of two equally near
hundredthsOf(scaled, shift) ==
  scaled[Limbs] \div 2^(shift - QuotientBits) + bitAt(scaled, shift - 1)
scaledBy100(x) == CHOOSE result \in {[n |-> times(v.n, 100), e |-> v.e] : v \in {x}} : TRUE
toFixed2(x) ==
  CHOOSE result \in {hundredthsOf(v.n, 0 - v.e) : v \in {scaledBy100(x)}} : TRUE
\* ((totalSuccess / (totalSuccess + totalFail)) * 100).toFixed(2): the division is
\* made whatever the divisor is; 0 / 0 is NaN and prints as "NaN"; otherwise the
\* double (totalSuccess / total) * 100, printed with two decimals
successRate(totalSuccess, totalFail) ==
  LET total == totalSuccess + totalFail
  IN  [divisor |-> total,
       nan |-> total = 0,
       hundredths |-> IF total = 0 \/ totalSuccess = 0 THEN 0
                      ELSE toFixed2(multiply(divide(totalSuccess, total), 100))]
\* process.exit(1) of main's catch block
fatalExitCode == 1

\* const userConfig = JSON.parse(fs.readFileSync('./config.json', 'utf8'))
LoadConfig ==
  /\ mainPc = "load_config"
  /\ \E o \in FileOutcomes :
       IF o = "ok"
         THEN /\ mainPc' = "load_keys"
              /\ loadFailed' = loadFailed
         ELSE /\ mainPc' = afterLoadFailure("load_keys")
              /\ loadFailed' = "config"
  /\ UNCHANGED <<config, pc, frame, txCount, walletIndex, walletsRun, returned, results,
                 summary, exitCode, walletNonces>>

\* const privateKeys = fs.readFileSync('./pk.txt', 'utf8').split ... .filter(...)
LoadKeys ==
  /\ mainPc = "load_keys"
  /\ \E o \in FileOutcomes :
       IF o = "ok"
         THEN /\ mainPc' = "wallets"
              /\ loadFailed' = loadFailed
         ELSE /\ mainPc' = afterLoadFailure("wallets")
              /\ loadFailed' = "keys"
  /\ UNCHANGED <<config, pc, frame, txCount, walletIndex, walletsRun, returned, results,
                 summary, exitCode, walletNonces>>

\* mutant of constructionThrows: a line that is no private key gives a wallet
constructionNeverThrows(k) == FALSE

\* new ethers.Wallet(privateKeys[k - 1], provider) throws on a line that is no
\* private key
constructionThrows(k) == k = badKey
\* for (let i = 0; i < privateKeys.length; i++) { processWallet(privateKeys[i], ...):
\* new ethers.Wallet(privateKey, provider) throws on a line that is no private
\* key, which rejects the call and lands in main's catch; otherwise the
\* wallet's loop starts, with fresh locals (successCount = failCount = 0)
StartWallet ==
  /\ mainPc = "wallets"
  /\ pc = "idle"
  /\ walletIndex < nKeys
  /\ IF constructionThrows(walletIndex + 1)
       THEN /\ mainPc' = "fatal"
            /\ UNCHANGED <<pc, frame, txCount, walletsRun>>
       ELSE /\ mainPc' = mainPc
            /\ pc' = "loop"
            /\ walletsRun' = Append(walletsRun, walletIndex + 1)
            /\ txCount' \in InitialTxCounts
            /\ UNCHANGED frame
  /\ UNCHANGED <<config, loadFailed, walletIndex, returned, results, summary, exitCode,
                 walletNonces>>

\* results.push(result); i++.  The locals of the call that returned are gone.
FinishWallet ==
  /\ mainPc = "wallets"
  /\ callReturned(pc)
  /\ results' = Append(results, [wallet |-> walletIndex + 1,
                                 successCount |-> successCount,
                                 failCount |-> failCount])
  /\ walletIndex' = walletIndex + 1
  /\ pc' = "idle"
  /\ i' = 0
  /\ successCount' = 0
  /\ failCount' = 0
  /\ step' = 0
  /\ currentNonce' = 0
  /\ nonceRead' = -1
  /\ quote' = NoQuote
  /\ tx' = NoTx
  /\ sent' = <<>>
  /\ ethAtStart' = -1
  /\ usdcBalance' = 0
  /\ wethBalance' = 0
  /\ swapGas' = 0
  /\ balanceCheck' = NoCheck
  /\ nEstimate' = 0
  /\ nCheck' = 0
  /\ feeSeen' = NotAsked
  /\ gasEstimation' = NoEstimation
  /\ nQuote' = 0
  /\ usdcReadAt' = -1
  /\ wethReadAt' = -1
  /\ checkedUsdc' = NotAsked
  /\ delay' = 0
  /\ nonceLog' = NoNonces
  /\ abandoned' = -1
  /\ UNCHANGED <<config, txCount, mainPc, loadFailed, walletsRun, returned, summary,
                 exitCode>>

\* the loop over the wallets ended: the summary, the totals and the success
\* rate are printed; main returns and the process ends with status 0
Summary ==
  /\ mainPc = "wallets"
  /\ pc = "idle"
  /\ ~(walletIndex < nKeys)
  /\ summary' = [printed |-> TRUE,
                 totalSuccess |-> totalSuccessOf(results),
                 totalFail |-> totalFailOf(results),
                 rate |-> successRate(totalSuccessOf(results), totalFailOf(results))]
  /\ mainPc' = "done"
  /\ exitCode' = 0
  /\ UNCHANGED <<config, pc, frame, txCount, loadFailed, walletIndex, walletsRun, returned,
                 results, walletNonces>>

\* catch (error) { logger.error(`Fatal error: ...`); process.exit(1) }
Fatal ==
  /\ mainPc = "fatal"
  /\ mainPc' = "exited"
  /\ exitCode' = fatalExitCode
  /\ UNCHANGED <<config, pc, frame, txCount, loadFailed, walletIndex, walletsRun, returned,
                 results, summary, walletNonces>>

\* --------------------------------------------------------- specification
Next ==
  \/ LoadConfig
  \/ LoadKeys
  \/ StartWallet
  \/ FinishWallet
  \/ Summary
  \/ Fatal
  \/ StartCycle
  \/ Return
  \/ Delay
  \/ Catch
  \/ MinePending
  \/ SwapQuote
  \/ SwapEstimate
  \/ SwapCheck
  \/ SwapNonce
  \/ SwapSend
  \/ SwapWait
  \/ SeqBegin
  \/ BalancesEth
  \/ BalancesUsdc
  \/ BalancesWeth
  \/ SeqQuote
  \/ SeqNonce
  \/ SeqPrepare
  \/ SeqSend
  \/ SeqWait
  \/ SeqAfter
  \/ SeqWeth
  \/ SeqDone

Spec == Init /\ [][Next]_vars

\* Every awaited call and every timer eventually completes: whenever a step of
\* the program is possible, one is eventually taken.
\* Termination does not depend on the amount swapped, and the runs of a healthy
\* endpoint are runs of an arbitrary one: one amount, no healthy endpoint.
InitFair ==
  /\ Init
  /\ numberOfSwaps <= MaxFairSwaps
  /\ amountPerSwap = 0
  /\ ~rpcHealthy
FairSpec == InitFair /\ [][Next]_vars /\ WF_vars(Next)

\* ------------------------------------------------------------ observations
Kinds(txs) == [k \in 1..Len(txs) |-> txs[k].kind]
AllConfirmed(txs) == \A k \in 1..Len(txs) : txs[k].status = "confirmed"
\* the last transaction of the cycle failed at submission or at confirmation
LastFailed ==
  /\ Len(sent) > 0
  /\ sent[Len(sent)].status \in {"rejected", "reverted", "unknown"}
\* what the node charges against the balance for a transaction
TotalCost(t) == t.value + t.gasLimit * t.maxFeePerGas

\* ------------------------------------------------------------------ claims

\* C1: in both variants and both modes, whatever fails inside the cycles,
\* successCount + failCount equals the number of finished loop iterations during
\* the run (a cycle that was counted as a success is counted once while it sleeps
\* before i++), and equals numberOfSwaps when processWallet returns.
C1_CountersMatchIterations ==
  /\ i <= numberOfSwaps
  /\ successCount + failCount = (IF pc = "delay" THEN i + 1 ELSE i)
  /\ pc = "return" => successCount + failCount = numberOfSwaps

C1_Witness ==
  /\ pc = "return"
  /\ numberOfSwaps = 2
  /\ successCount = 1
  /\ failCount = 1

\* C2 (as claimed): in sequential mode the balance guard is called and passes
\* before any transaction of the sequence is handed to sendTransaction, and a
\* wallet whose native balance at the start of the cycle is below the total cost
\* of step 1 makes no call of sendTransaction.
C2_GuardBeforeSequence ==
  (sequentialSwap /\ Len(sent) >= 1) =>
    /\ balanceCheck.done /\ balanceCheck.result
    /\ ethAtStart # -1 => ethAtStart >= TotalCost(sent[1])

\* C3: in a sequential cycle the nonce N is the network transaction count read at
\* the start of the sequence; the k-th transaction handed to sendTransaction
\* carries nonce N + k - 1, and the local nonce is advanced exactly once per
\* transaction, so no nonce is skipped or reused inside the cycle.
C3_SequenceNonces ==
  (sequentialSwap /\ step >= 1) =>
    /\ Len(sent) <= LastStep
    /\ \A k \in 1..Len(sent) : sent[k].nonce = nonceRead + k - 1
    /\ currentNonce = nonceRead + Len(sent) + (IF pc = "seq_send" THEN 1 ELSE 0)
    /\ (pc = "seq_prepare" /\ step = 1) => nonceRead = txCount

C3_Witness ==
  /\ sequentialSwap
  /\ i = 1
  /\ Len(sent) = 5
  /\ nonceRead = 8
  /\ sent[5].nonce = 12
  /\ sent[5].status = "confirmed"

\* C4: with numberOfSwaps = 1, sequentialSwap = true and an endpoint on which
\* every call succeeds and every transaction confirms, the run hands exactly the
\* five transactions swap, approve, swap, approve, withdraw to the network in
\* that order, each is confirmed, and the wallet's result is 1 success, 0 failures.
C4_HealthySequence ==
  (rpcHealthy /\ sequentialSwap /\ numberOfSwaps = 1) =>
    /\ pc # "catch"
    /\ Len(sent) <= 5
    /\ Kinds(sent) = SubSeq(<<"swap", "approve", "swap", "approve", "withdraw">>,
                            1, Len(sent))
    /\ pc = "return" =>
         /\ Len(sent) = 5
         /\ AllConfirmed(sent)
         /\ successCount = 1
         /\ failCount = 0

C4_Witness ==
  /\ rpcHealthy
  /\ sequentialSwap
  /\ numberOfSwaps = 1
  /\ pc = "return"
  /\ Len(sent) = 5

\* C5: in sequential mode a step is submitted only after the transaction of the
\* step before it was confirmed: every transaction but the last one handed over
\* is confirmed, at most one is submitted and unconfirmed, and none is while the
\* next request is being built or sent.
C5_NoPipelining ==
  sequentialSwap =>
    /\ \A k \in 2..Len(sent) : sent[k - 1].status = "confirmed"
    /\ Cardinality({k \in 1..Len(sent) : sent[k].status = "submitted"}) <= 1
    /\ pc \in {"seq_prepare", "seq_send"} => AllConfirmed(sent)

C5_Witness ==
  /\ sequentialSwap
  /\ Len(sent) = 2
  /\ sent[1].status = "confirmed"
  /\ sent[2].status = "submitted"

\* what holds in every state of a sequential cycle with respect to a failed step
C6_StateOnFailure ==
  sequentialSwap =>
    /\ LastFailed => pc \in {"catch", "loop", "return", "idle"}
    /\ Len(sent) <= 5
    /\ Kinds(sent) = SubSeq(<<"swap", "approve", "swap", "approve", "withdraw">>,
                            1, Len(sent))
    /\ pc \in {"seq_done", "delay"} => (Len(sent) = LastStep /\ AllConfirmed(sent))

\* C6: in sequential mode, once step k failed at submission or its confirmation
\* failed or reverted, no further transaction is handed over in that cycle
\* (neither a later step nor a compensating one), the cycle is counted as one
\* failure and not as a success; a sequential cycle is counted as a success
\* only when all five steps were confirmed.
C6_AbortOnStepFailure ==
  /\ [] C6_StateOnFailure
  /\ [][(sequentialSwap /\ LastFailed /\ pc # "return") =>
          /\ successCount' = successCount
          /\ (sent' = sent \/ sent' = <<>>)
          /\ (pc = "catch" => failCount' = failCount + 1)
          /\ (pc # "catch" => failCount' = failCount)]_vars
  /\ [][(sequentialSwap /\ successCount' > successCount) =>
          (successCount' = successCount + 1 /\ Len(sent) = LastStep
           /\ AllConfirmed(sent))]_vars

C6_Witness ==
  /\ sequentialSwap
  /\ pc = "loop"
  /\ i = 1
  /\ failCount = 1
  /\ successCount = 0
  /\ Len(sent) = 3
  /\ sent[3].status = "reverted"

\* C7: with sequentialSwap = false the run makes numberOfSwaps single swap
\* attempts; an attempt submits at most one transaction and only after its own
\* balance check returned true; an insufficient balance ends that attempt with
\* nothing submitted; in src/bot.js every finished attempt made exactly one gas
\* estimation and one balance check of its own.
C7_SingleSwapAttempts ==
  ~sequentialSwap =>
    /\ Len(sent) <= 1
    /\ nEstimate <= 1 /\ nCheck <= 1
    /\ Len(sent) = 1 => (nCheck = 1 /\ balanceCheck.done /\ balanceCheck.result)
    /\ (balanceCheck.done /\ ~balanceCheck.result) =>
         (Len(sent) = 0 /\ pc \in {"catch", "loop", "return", "idle"})
    /\ (variant = "dynamic" /\ (pc \in {"catch", "delay"} \/ (pc = "loop" /\ i > 0))) =>
         (nEstimate = 1 /\ nCheck = 1)
    /\ pc = "return" => i = numberOfSwaps

C7_Witness ==
  /\ ~sequentialSwap
  /\ variant = "dynamic"
  /\ pc = "loop"
  /\ i = 2
  /\ successCount = 1
  /\ failCount = 1
  /\ balanceCheck.done
  /\ ~balanceCheck.result
  /\ Len(sent) = 0

\* C8: a failed cycle adds exactly 1 to failCount, leaves successCount alone and
\* does not end the loop: the catch block goes on with the next index, and the
\* run returns only after all numberOfSwaps cycles were attempted.
C8_FailureContinuesLoop ==
  /\ [][pc = "catch" =>
          /\ failCount' = failCount + 1
          /\ successCount' = successCount
          /\ i' = i + 1
          /\ pc' = "loop"]_vars
  /\ [][pc' = "return" => i = numberOfSwaps]_vars
  /\ []((LastFailed \/ (balanceCheck.done /\ ~balanceCheck.result)) =>
          pc \in {"catch", "loop", "return", "idle"})

C8_Witness ==
  /\ pc = "return"
  /\ failCount = 1
  /\ successCount = 1
  /\ Len(sent) > 0
  /\ AllConfirmed(sent)

\* C9 (as claimed): between any two consecutive cycles of a wallet, after a
\* cycle that succeeded or failed, the runner slept a delay d with
\* 5000 <= d < 15000 milliseconds.
C9_DelayBetweenCycles ==
  (pc = "loop" /\ i > 0 /\ i < numberOfSwaps) => (delay >= 5000 /\ delay < 15000)

\* C10: checkBalance returns true exactly when the balance it read is at least
\* amount + gasEstimate x gasPrice, in exact integers (true at equality, false
\* one unit below).
C10_BalanceGuardExact ==
  balanceCheck.done =>
    (balanceCheck.result <=>
       balanceCheck.balance >=
         balanceCheck.amount + balanceCheck.gasEstimate * balanceCheck.gasPrice)

C10_Witness ==
  /\ balanceCheck.done
  /\ balanceCheck.result
  /\ balanceCheck.balance =
       balanceCheck.amount + balanceCheck.gasEstimate * balanceCheck.gasPrice

\* C11: estimateGasWithFallback returns floor(X * 120 / 100) when the network
\* estimation returns X and exactly 350000 when it fails; the caller always
\* gets a gas limit and goes on with it, the failure never reaches the cycle.
C11_EstimatorResult ==
  (variant = "dynamic" /\ gasEstimation.asked) =>
    /\ gasEstimation.outcome = Fail => gasEstimation.result = 350000
    /\ gasEstimation.outcome # Fail =>
         /\ gasEstimation.result * 100 <= gasEstimation.outcome * 120
         /\ gasEstimation.outcome * 120 < (gasEstimation.result + 1) * 100
    /\ IF sequentialSwap THEN tx.gasLimit = gasEstimation.result
       ELSE swapGas = gasEstimation.result
    /\ pc = "catch" => (nCheck >= 1 \/ Len(sent) >= 1)

C11_Witness ==
  /\ variant = "dynamic"
  /\ Len(sent) >= 2
  /\ sent[1].estimate = Fail
  /\ sent[1].gasLimit = 350000
  /\ sent[2].estimate = 250001
  /\ sent[2].gasLimit = 300001

\* C12 (as claimed): whenever fee data is unavailable, the query failing or
\* returning no last base fee, the quote has maxFeePerGas and
\* maxPriorityFeePerGas both equal to the static fallback (0.01 gwei = 100).
C12_FallbackWhenNoFeeData ==
  (nQuote >= 1 /\ feeSeen \in {Fail, NoBaseFee}) =>
    (quote.maxFeePerGas = 100 /\ quote.maxPriorityFeePerGas = 100)

\* C12 (amended): getDynamicGasPrice always returns a quote.  When the fee query
\* fails both fees are the static fallback, 0.01 gwei (100).  When it succeeds
\* without a last base fee, the priority fee is 0.008 gwei (80) and the fee cap
\* is the default base fee plus the priority fee, 0.016 gwei (160).
C12_PricerFallbacks ==
  nQuote >= 1 =>
    /\ feeSeen # NotAsked
    /\ quote.maxPriorityFeePerGas > 0
    /\ quote.maxFeePerGas >= quote.maxPriorityFeePerGas
    /\ feeSeen = Fail =>
         (quote.maxFeePerGas = 100 /\ quote.maxPriorityFeePerGas = 100)
    /\ feeSeen = NoBaseFee =>
         (quote.maxFeePerGas = 160 /\ quote.maxPriorityFeePerGas = 80)

C12_Witness ==
  /\ feeSeen = NoBaseFee
  /\ quote.maxFeePerGas = 160
  /\ Len(sent) >= 1
  /\ sent[1].maxFeePerGas = 160
  /\ sent[1].maxPriorityFeePerGas = 80

\* the sum of a field over the first n results, for stating the totals
RECURSIVE SumSuccess(_)
SumSuccess(n) == IF n = 0 THEN 0 ELSE results[n].successCount + SumSuccess(n - 1)
RECURSIVE SumFail(_)
SumFail(n) == IF n = 0 THEN 0 ELSE results[n].failCount + SumFail(n - 1)

\* C13: main runs the wallets strictly in the order of the key list and one at
\* a time: wallet j + 1 begins only after the run of wallet j returned, and no
\* operation of the bot happens while no wallet is running.
C13_WalletsOneAtATime ==
  /\ \A k \in 1..Len(walletsRun) : walletsRun[k] = k
  /\ \A k \in 1..Len(returned) : returned[k] = k
  /\ Len(returned) <= Len(walletsRun)
  /\ Len(walletsRun) <= Len(returned) + 1
  /\ pc \notin {"idle", "return"} =>
       (Len(walletsRun) = Len(returned) + 1 /\ walletIndex + 1 = Len(walletsRun))
  /\ pc = "idle" =>
       (Len(walletsRun) = Len(returned) /\ Len(sent) = 0 /\ nQuote = 0 /\ nEstimate = 0)

C13_Witness ==
  /\ walletsRun = <<1, 2>>
  /\ returned = <<1>>
  /\ results[1].successCount >= 1
  /\ Len(sent) >= 1
  /\ sent[1].status = "submitted"

\* C14: when the configuration and the key file load and every key gives a
\* wallet, failed cycles never stop the batch: main is never aborted, and when
\* it ends every wallet was run, the results hold one entry per wallet in key
\* order, each with successCount + failCount = numberOfSwaps, the totals are
\* the sums of the entries and totalSuccess + totalFail = wallets * numberOfSwaps.
C14_BatchSummary ==
  (loadFailed = "none" /\ badKey = 0) =>
    /\ mainPc \notin {"fatal", "exited"}
    /\ \A k \in 1..Len(results) :
         /\ results[k].wallet = k
         /\ results[k].successCount + results[k].failCount = numberOfSwaps
    /\ mainPc = "done" =>
         /\ summary.printed
         /\ Len(results) = nKeys
         /\ Len(walletsRun) = nKeys
         /\ summary.totalSuccess = SumSuccess(nKeys)
         /\ summary.totalFail = SumFail(nKeys)
         /\ summary.totalSuccess + summary.totalFail = nKeys * numberOfSwaps

C14_Witness ==
  /\ mainPc = "done"
  /\ nKeys = 2
  /\ numberOfSwaps = 2
  /\ results[1].failCount = 2
  /\ results[2].successCount = 1
  /\ summary.totalSuccess = 1
  /\ summary.totalFail = 3

\* C15 (as claimed): the success rate of the summary is never computed with a
\* zero divisor: when no swap was attempted the division is not made.
C15_RateGuardsZeroAttempts ==
  summary.printed => (summary.rate.divisor # 0 /\ ~summary.rate.nan)

\* C16: if the configuration file or the key file cannot be read or parsed, the
\* run aborts at once: no wallet is run, no call is made to the endpoint, no
\* transaction is built or submitted, no summary is printed, and the process
\* exits with status 1.
C16_LoadFailureAborts ==
  loadFailed # "none" =>
    /\ mainPc \in {"fatal", "exited"}
    /\ walletsRun = <<>>
    /\ results = <<>>
    /\ pc = "idle"
    /\ Len(sent) = 0 /\ tx = NoTx
    /\ nQuote = 0 /\ nEstimate = 0 /\ nCheck = 0 /\ nonceRead = -1 /\ ethAtStart = -1
    /\ ~summary.printed
    /\ exitCode # 0
    /\ mainPc = "exited" => exitCode = 1

C16_Witness ==
  /\ loadFailed = "keys"
  /\ nKeys = 2
  /\ badKey = 0
  /\ mainPc = "exited"
  /\ exitCode = 1

\* C17: in sequential mode the amount of step 3 is the intermediate-token
\* balance read after step 1 was confirmed and before step 3 was built, and the
\* amount of step 5 is the wrapped-native balance read after step 3 was
\* confirmed; neither is a value known before the preceding swap settled.
C17_AmountsReadAfterSettlement ==
  sequentialSwap =>
    /\ usdcReadAt # -1 => (usdcReadAt >= 1 /\ usdcReadAt < 3)
    /\ wethReadAt # -1 => (wethReadAt >= 3 /\ wethReadAt < 5)
    /\ (step = 3 /\ tx.kind = "swap") =>
         (tx.amount = usdcBalance /\ usdcReadAt # -1)
    /\ (step = 5 /\ tx.kind = "withdraw") =>
         (tx.amount = wethBalance /\ wethReadAt # -1)
    /\ Len(sent) >= 3 =>
         /\ sent[3].amount = usdcBalance
         /\ usdcReadAt # -1
         /\ sent[1].status = "confirmed"
    /\ Len(sent) >= 5 =>
         /\ sent[5].amount = wethBalance
         /\ wethReadAt # -1
         /\ sent[3].status = "confirmed"

C17_Witness ==
  /\ sequentialSwap
  /\ Len(sent) = 5
  /\ sent[3].amount = 53
  /\ sent[5].amount = 53
  /\ usdcReadAt = 2
  /\ wethReadAt = 3

\* C18 (as claimed): in sequential mode the dynamic variant calls the gas pricer
\* once per submitted step, and the static variant submits all its transactions
\* with the same fees.
C18_RequotePerStep ==
  sequentialSwap =>
    /\ variant = "dynamic" => nQuote >= Len(sent)
    /\ variant = "static" =>
         \A k \in 1..Len(sent) :
           /\ sent[k].maxFeePerGas = sent[1].maxFeePerGas
           /\ sent[k].maxPriorityFeePerGas = sent[1].maxPriorityFeePerGas

\* C18 (amended): in sequential mode both variants use one gas quote for the
\* whole sequence, so all its transactions carry the same maxFeePerGas and
\* maxPriorityFeePerGas.  The dynamic variant gets it from exactly one call of
\* the gas pricer, made before step 1; the static variant never calls a pricer.
C18_OneQuotePerSequence ==
  sequentialSwap =>
    /\ \A k \in 1..Len(sent) :
         /\ sent[k].maxFeePerGas = sent[1].maxFeePerGas
         /\ sent[k].maxPriorityFeePerGas = sent[1].maxPriorityFeePerGas
    /\ variant = "dynamic" => (nQuote <= 1 /\ (Len(sent) >= 1 => nQuote = 1))
    /\ variant = "static" => nQuote = 0

C18_Witness ==
  /\ sequentialSwap
  /\ variant = "dynamic"
  /\ Len(sent) = 5
  /\ nQuote = 1
  /\ sent[5].maxFeePerGas = sent[1].maxFeePerGas

\* C19 (as claimed): in both variants and both modes a failed gas estimation is
\* replaced by the fallback limit 350000 and the cycle goes on, to the balance
\* check of a single swap or to the submission of the step.
C19_EstimationFailureRecovered ==
  (gasEstimation.asked /\ gasEstimation.outcome = Fail) =>
    /\ gasEstimation.result = 350000
    /\ ~sequentialSwap => (pc = "swap_check" \/ nCheck >= 1)
    /\ sequentialSwap =>
         (pc = "seq_send" \/ (Len(sent) >= 1 /\ sent[Len(sent)].nonce = tx.nonce))

\* C19 (amended): in src/bot.js, both modes, a failed gas estimation is replaced
\* by the fallback limit 350000 and the cycle goes on.  In src/unnamed/part_000
\* the sequence makes no gas estimation, and a failed estimation of a single
\* swap fails the cycle before the balance check and before any submission.
C19_EstimationFailureByVariant ==
  /\ (variant = "dynamic" /\ gasEstimation.asked /\ gasEstimation.outcome = Fail) =>
       /\ gasEstimation.result = 350000
       /\ ~sequentialSwap => (pc = "swap_check" \/ nCheck >= 1)
       /\ sequentialSwap =>
            (pc = "seq_send" \/ (Len(sent) >= 1 /\ sent[Len(sent)].nonce = tx.nonce))
  /\ (variant = "static" /\ sequentialSwap) =>
       (~gasEstimation.asked /\ nEstimate = 0)
  /\ (variant = "static" /\ gasEstimation.asked /\ gasEstimation.outcome = Fail) =>
       /\ nCheck = 0
       /\ Len(sent) = 0
       /\ pc = "catch" \/ failCount >= 1

C19_Witness ==
  /\ variant = "static"
  /\ ~sequentialSwap
  /\ gasEstimation.asked
  /\ gasEstimation.outcome = Fail
  /\ pc = "catch"

\* C20 (as claimed): every transaction of a sequence carries the gas limit the
\* estimator returned for it, floor(X * 120 / 100) of its own estimation X or
\* the fallback 350000, and no other gas limit.
C20_EveryLimitFromEstimator ==
  sequentialSwap =>
    \A k \in 1..Len(sent) :
      \/ sent[k].gasLimit = 350000
      \/ /\ sent[k].estimate > 0
         /\ sent[k].gasLimit * 100 <= sent[k].estimate * 120
         /\ sent[k].estimate * 120 < (sent[k].gasLimit + 1) * 100

\* C20 (amended): in src/bot.js every transaction of a sequence carries the gas
\* limit the estimator returned for it, floor(X * 120 / 100) of its own
\* estimation X or 350000 when that estimation failed.  In src/unnamed/part_000
\* no step is estimated: steps 1 to 4 carry 350000 and step 5 carries 100000.
C20_GasLimitsByVariant ==
  sequentialSwap =>
    \A k \in 1..Len(sent) :
      /\ variant = "dynamic" =>
           \/ sent[k].estimate = Fail /\ sent[k].gasLimit = 350000
           \/ /\ sent[k].estimate > 0
              /\ sent[k].gasLimit * 100 <= sent[k].estimate * 120
              /\ sent[k].estimate * 120 < (sent[k].gasLimit + 1) * 100
      /\ variant = "static" =>
           /\ sent[k].estimate = NotAsked
           /\ sent[k].gasLimit = IF k = 5 THEN 100000 ELSE 350000

C20_Witness ==
  /\ sequentialSwap
  /\ variant = "static"
  /\ Len(sent) = 5
  /\ sent[1].gasLimit = 350000
  /\ sent[5].gasLimit = 100000

\* C21: when every awaited call and every timer eventually completes, the run
\* ends: the process reaches the end of main or exits; when the files load and
\* every key gives a wallet it ends with the summary printed.  The loop index of
\* a wallet only moves by one, at the end of a cycle, and never passes
\* numberOfSwaps, so no cycle is repeated and a wallet's loop returns after
\* exactly numberOfSwaps attempts.
C21_RunTerminates ==
  /\ <>(mainPc \in {"done", "exited"})
  /\ (mainPc = "wallets" /\ badKey = 0) ~>
       (mainPc = "done" /\ summary.printed /\ Len(results) = nKeys)
  /\ [](i <= numberOfSwaps)
  /\ [][i' # i =>
          \/ (i' = i + 1 /\ pc \in {"catch", "delay"} /\ pc' = "loop")
          \/ (i' = 0 /\ pc = "return" /\ i = numberOfSwaps)]_vars
  /\ [][pc' = "return" => (pc = "loop" /\ i = numberOfSwaps)]_vars

C21_Witness ==
  /\ mainPc = "done"
  /\ summary.printed
  /\ nKeys = 2
  /\ numberOfSwaps = 1
  /\ summary.totalFail = 2

\* C22 (as claimed): across a wallet's whole run no two transactions the node
\* accepted from the wallet carry the same nonce, also after a cycle whose
\* confirmation wait failed while its transaction was pending, or reverted.
C22_NoncesNeverReused ==
  ~nonceLog.reused

\* C23 (as claimed): in single-swap mode, whenever a transaction is handed to
\* sendTransaction, the balance the check read was at least tx.value +
\* tx.gasLimit * tx.maxFeePerGas for the gas limit and fee cap that
\* transaction carries, in both variants.
C23_CheckCoversSubmitted ==
  (~sequentialSwap /\ Len(sent) >= 1) =>
    /\ balanceCheck.done
    /\ balanceCheck.balance >=
         sent[1].value + sent[1].gasLimit * sent[1].maxFeePerGas

\* C24: when the key at position j gives no wallet, the error is not isolated
\* to that wallet: main is aborted and the process exits with status 1, the
\* wallets from position j on are never run, and no summary is printed, also
\* when the wallets before j completed their cycles.
C24_BadKeyAbortsRun ==
  (badKey # 0 /\ loadFailed = "none") =>
    /\ \A k \in 1..Len(walletsRun) : walletsRun[k] < badKey
    /\ Len(results) < badKey
    /\ ~summary.printed
    /\ mainPc # "done"
    /\ exitCode # 0
    /\ mainPc \in {"fatal", "exited"} => Len(results) = badKey - 1
    /\ mainPc = "exited" => exitCode = 1

C24_Witness ==
  /\ badKey = 2
  /\ nKeys = 2
  /\ numberOfSwaps = 2
  /\ Len(results) = 1
  /\ results[1].successCount = 2
  /\ mainPc = "exited"
  /\ exitCode = 1
  /\ ~summary.printed

\* C25: in every sequential cycle the transactions have fixed destinations and
\* values: steps 1 and 3 go to the router, step 2 to TOKEN_OUT, steps 4 and 5 to
\* TOKEN_IN; step 1 carries the configured swap amount as its value and steps
\* 2 to 5 carry value 0; both swaps encode the running wallet's own address as
\* recipient.
C25_DestinationsAndValues ==
  sequentialSwap =>
    \A k \in 1..Len(sent) :
      /\ k \in {1, 3} => sent[k].to = "QUICKSWAP_ROUTER"
      /\ k = 2 => (sent[k].to = "TOKEN_OUT" /\ sent[k].kind = "approve")
      /\ k = 4 => (sent[k].to = "TOKEN_IN" /\ sent[k].kind = "approve")
      /\ k = 5 => (sent[k].to = "TOKEN_IN" /\ sent[k].kind = "withdraw")
      /\ k = 1 =>
           sent[k].value =
             (IF amountPerSwap # 0 THEN amountPerSwap ELSE 2) * 100000000
      /\ k > 1 => sent[k].value = 0
      /\ k \in {1, 3} =>
           (sent[k].kind = "swap" /\ sent[k].recipient = walletsRun[Len(walletsRun)])

C25_Witness ==
  /\ sequentialSwap
  /\ Len(sent) = 5
  /\ walletsRun = <<1, 2>>
  /\ sent[1].value = 100000000
  /\ sent[3].recipient = 2
  /\ sent[5].to = "TOKEN_IN"
  /\ sent[5].value = 0

====
